---- MODULE Spec2Model ----
(***************************************************************************)
(* Model of the Scalekit Expo SDK authentication core:                     *)
(*   - ScalekitAuth (the service: PKCE login, code exchange, id_token      *)
(*     decoding, secure-store reads/writes, expiry test, logout), and      *)
(*   - ScalekitProvider (the React provider that owns the AuthState and    *)
(*     runs initAuth / login / logout / refreshUser / getAccessToken).     *)
(*                                                                         *)
(* Every `await` of the code is a step of its own; the code between two    *)
(* awaits runs atomically (single-threaded JavaScript).  Every collaborator*)
(* call (SecureStore, Crypto, WebBrowser, fetch) may succeed or throw.     *)
(*                                                                         *)
(* JavaScript values are tagged records (field k), so that null,           *)
(* undefined, NaN, strings, numbers and objects stay distinct.             *)
(***************************************************************************)
EXTENDS Integers, Sequences, FiniteSets, TLC

\* ------------------------------------------------------------------ bounds
\* number of clock ticks the model lets pass
MaxTicks == 2
\* number of provider calls (login, logout, refreshUser, getAccessToken, a new
\* mount) the model follows after the first mount
MaxCalls == 2

\* ------------------------------------------------------- program constants
\* areTokensExpired: "Add 60 second buffer to handle clock skew"
BufferMs == 60000
\* exchangeCodeForTokens: Date.now() + data.expires_in * 1000
MsPerSecond == 1000
\* decodeIdToken: parts.length !== 3
JwtParts == 3

\* one tick of the model's clock is half the expiry buffer
TickMs == BufferMs \div 2

\* ------------------------------------------------------- JavaScript values
Undefined == [k |-> "undefined"]
Null == [k |-> "null"]
NaN == [k |-> "NaN"]
Str(s) == [k |-> "str", s |-> s]
Num(n) == [k |-> "num", n |-> n]
Obj(f) == [k |-> "obj", f |-> f]
\* a JWT string, kept as the segments that split('.') yields
Jwt(parts) == [k |-> "jwt", parts |-> parts]

\* JavaScript truthiness (the `x ? :`, `!x` and `&&` tests of the code)
Truthy(v) ==
  /\ v.k \notin {"undefined", "null", "NaN"}
  /\ ~(v.k = "str" /\ v.s = "")
  /\ ~(v.k = "num" /\ v.n = 0)
  /\ ~(v.k = "jwt" /\ v.parts = <<"">>)

\* property read o.name : undefined when the key is missing
Get(o, name) ==
  IF o.k = "obj" /\ name \in DOMAIN o.f THEN o.f[name] ELSE Undefined

\* ToNumber, as the arithmetic operators apply it
ToNumber(v) ==
  CASE v.k = "num" -> v
    [] v.k = "null" -> Num(0)
    [] OTHER -> NaN

JsTimes(v, n) ==
  IF ToNumber(v).k = "num" THEN Num(ToNumber(v).n * n) ELSE NaN

JsPlus(n, v) ==
  IF ToNumber(v).k = "num" THEN Num(n + ToNumber(v).n) ELSE NaN

JsMinus(v, n) ==
  IF ToNumber(v).k = "num" THEN Num(ToNumber(v).n - n) ELSE NaN

\* n >= v : false whenever v is NaN
JsGeq(n, v) == v.k = "num" /\ n >= v.n

\* ------------------------------------------------------------------- JSON
\* JSON.stringify drops the keys whose value is undefined and writes NaN as
\* null; the objects of this program are flat.
JsonValue(v) ==
  IF v.k = "obj"
    THEN Obj([x \in {y \in DOMAIN v.f : v.f[y] # Undefined} |->
                IF v.f[x] = NaN THEN Null ELSE v.f[x]])
    ELSE IF v = NaN THEN Null ELSE v

JsonStringify(v) == [k |-> "json", v |-> JsonValue(v)]

\* a stored blob that is not JSON
CorruptBlob == Str("{corrupt")

\* JSON.parse: whether it returns, and what
JsonParses(text) == text.k = "json"
JsonParse(text) == text.v

\* ------------------------------------------------------------ secure store
\* STORAGE_KEYS
TOKENS == "scalekit_tokens"
USER_INFO == "scalekit_user_info"
CODE_VERIFIER == "pkce_code_verifier"
Keys == {TOKENS, USER_INFO, CODE_VERIFIER}

\* ------------------------------------------------- server-supplied inputs
\* id_token payload segments and what atob + JSON.parse make of them: "p1"
\* and "p2" encode claims, "pnull" encodes the JSON literal null (JSON.parse
\* returns null for it), any other segment does not parse
PayloadParses(p) == p \in {"p1", "p2", "pnull"}
PayloadClaims(p) ==
  CASE p = "p1" -> Obj([sub |-> Str("u1"), email |-> Str("a@b.com")])
    [] p = "p2" -> Obj([sub |-> Str("u2")])
    [] p = "pnull" -> Null
    [] OTHER -> Undefined

IdU1 == Jwt(<<"h", "p1", "s">>)
IdU2 == Jwt(<<"h", "p2", "s">>)
IdTwoParts == Jwt(<<"h", "p1">>)
IdNull == Jwt(<<"h", "pnull", "s">>)
IdTokens == {IdU1, IdU2, IdTwoParts, IdNull, Undefined}

\* expires_in values (seconds) a token response may carry
ExpiresIns == {Num(30), Num(120), Undefined}

\* the JSON body of a successful token response
TokenResponse(id, e) ==
  JsonValue(Obj([access_token |-> Str("at1"), refresh_token |-> Undefined,
                 id_token |-> id, token_type |-> Str("Bearer"),
                 expires_in |-> e]))

TokenResponses ==
  {TokenResponse(IdU1, e) : e \in ExpiresIns}
    \cup {TokenResponse(id, Num(120)) : id \in IdTokens}

\* ---------------------------------------------------------- ScalekitAuth
\* a JavaScript array of strings
Arr(a) == [k |-> "arr", a |-> a]

\* Array.prototype.join
RECURSIVE Join(_, _)
Join(a, sep) ==
  IF a = <<>> THEN ""
  ELSE IF Len(a) = 1 THEN a[1]
  ELSE a[1] \o sep \o Join(Tail(a), sep)

\* the scope lists a caller may pass: none, an empty one, lists of names
ScopeLists ==
  {Undefined, Arr(<<>>), Arr(<<"openid">>), Arr(<<"openid", "organizations">>)}

\* the ScalekitConfig objects passed to the constructor
ScalekitConfig(scopes, redirectUri) ==
  Obj([clientId |-> Str("client1"), scopes |-> scopes,
       redirectUri |-> redirectUri])

Configs == {ScalekitConfig(sc, Undefined) : sc \in ScopeLists}

\* getDefaultRedirectUri
DefaultRedirectUri == Str("exp://localhost:8081/--/auth/callback")

\* the constructor: scopes: config.scopes || ['openid', 'profile', 'email'],
\* redirectUri: config.redirectUri || this.getDefaultRedirectUri()
Constructor(cfg) ==
  Obj([cfg.f EXCEPT
         !.scopes = IF Truthy(@) THEN @ ELSE Arr(<<"openid", "profile", "email">>),
         !.redirectUri = IF Truthy(@) THEN @ ELSE DefaultRedirectUri])

\* the configuration of a provider that is given no scope list
DefaultConfig == Constructor(ScalekitConfig(Undefined, Undefined))

\* generateCodeChallenge: the base64url text of the SHA-256 digest
CodeChallenge(codeVerifier) == "S256(" \o codeVerifier \o ")"

\* login: the query parameters of the authorization URL (no login options)
AuthorizationParams(cfg, codeChallenge) ==
  [client_id |-> Get(cfg, "clientId").s,
   redirect_uri |-> Get(cfg, "redirectUri").s,
   response_type |-> "code",
   scope |-> Join(Get(cfg, "scopes").a, " "),
   code_challenge |-> codeChallenge,
   code_challenge_method |-> "S256"]

\* exchangeCodeForTokens: the token record built from the response
MakeTokens(data, t) ==
  Obj([accessToken |-> Get(data, "access_token"),
       refreshToken |-> Get(data, "refresh_token"),
       idToken |-> Get(data, "id_token"),
       tokenType |-> Get(data, "token_type"),
       expiresIn |-> Get(data, "expires_in"),
       expiresAt |-> JsPlus(t, JsTimes(Get(data, "expires_in"), MsPerSecond))])

\* faulty variant of areTokensExpired: > in place of >=
AreTokensExpired_Strict(tokens, t) ==
  LET limit == JsMinus(Get(tokens, "expiresAt"), BufferMs)
  IN limit.k = "num" /\ t > limit.n

\* faulty variant of areTokensExpired: the 60 second buffer is left out
AreTokensExpired_NoBuffer(tokens, t) ==
  JsGeq(t, ToNumber(Get(tokens, "expiresAt")))

\* areTokensExpired: Date.now() >= tokens.expiresAt - 60000
AreTokensExpired(tokens, t) ==
  JsGeq(t, JsMinus(Get(tokens, "expiresAt"), BufferMs))

\* faulty variant of decodeIdToken: the number of segments is not tested
DecodeOk_AnyParts(idToken) ==
  /\ idToken.k = "jwt"
  /\ Len(idToken.parts) >= 2
  /\ PayloadParses(idToken.parts[2])

\* decodeIdToken: whether it returns, and the claims it returns
DecodeOk(idToken) ==
  /\ idToken.k = "jwt"
  /\ Len(idToken.parts) = JwtParts
  /\ PayloadParses(idToken.parts[2])
DecodeIdToken(idToken) == PayloadClaims(idToken.parts[2])

\* getStoredTokens / getStoredUserInfo: `item` is what the store holds,
\* `ok` whether getItemAsync returned; every throw is caught and gives null
GetStored(item, ok) ==
  IF ok /\ Truthy(item) /\ JsonParses(item) THEN JsonParse(item) ELSE Null


\* ------------------------------------------------------- ScalekitProvider
\* useState: the AuthState at mount
InitialAuthState ==
  [isLoading |-> TRUE, isAuthenticated |-> FALSE, user |-> Null,
   tokens |-> Null, error |-> Null]

\* initAuth: "Valid session exists"
RestoreValid(storedUser, storedTokens) ==
  [isLoading |-> FALSE, isAuthenticated |-> TRUE, user |-> storedUser,
   tokens |-> storedTokens, error |-> Null]

\* faulty variant of the update of initAuth: isLoading is not cleared
RestoreNone_StillLoading ==
  [isLoading |-> TRUE, isAuthenticated |-> FALSE, user |-> Null,
   tokens |-> Null, error |-> Null]

\* initAuth: "No valid session"
RestoreNone ==
  [isLoading |-> FALSE, isAuthenticated |-> FALSE, user |-> Null,
   tokens |-> Null, error |-> Null]

\* initAuth: catch
RestoreCatch ==
  [isLoading |-> FALSE, isAuthenticated |-> FALSE, user |-> Null,
   tokens |-> Null, error |-> Str("Failed to initialize authentication")]

\* faulty variant of the session test: the negation of the expiry test is
\* left out
RestoreSessionValid_NoNegation(storedTokens, storedUser, t) ==
  Truthy(storedTokens) /\ Truthy(storedUser) /\ AreTokensExpired(storedTokens, t)

\* initAuth: the session test of the if
RestoreSessionValid(storedTokens, storedUser, t) ==
  Truthy(storedTokens) /\ Truthy(storedUser) /\ ~AreTokensExpired(storedTokens, t)

\* faulty variant of the first update of logout: isLoading is not set
LogoutStart_NoLoading(prev) == prev

\* logout: setAuthState before the await
LogoutStart(prev) == [prev EXCEPT !.isLoading = TRUE]

\* faulty variant of the update after a logout: isLoading is not cleared
LogoutSuccess_StillLoading ==
  [isLoading |-> TRUE, isAuthenticated |-> FALSE, user |-> Null,
   tokens |-> Null, error |-> Null]

\* logout: after authService.logout() returned
LogoutSuccess ==
  [isLoading |-> FALSE, isAuthenticated |-> FALSE, user |-> Null,
   tokens |-> Null, error |-> Null]

\* logout: catch
LogoutCatch(prev) ==
  [prev EXCEPT !.isLoading = FALSE, !.error = Str("Failed to logout")]

\* a thrown value: an Error with a message, or something that is no Error
Err(m) == [isError |-> TRUE, message |-> m]
NonError == [isError |-> FALSE, message |-> ""]
\* what a failing collaborator call (SecureStore, Crypto, fetch,
\* response.text/json) throws
CollaboratorThrows == {Err("collaborator failed")}
\* what a failing WebBrowser.openAuthSessionAsync may throw
BrowserThrows == CollaboratorThrows \cup {NonError}

\* faulty variant of the first update of login: isLoading is not set
LoginStart_NoLoading(prev) == [prev EXCEPT !.error = Null]

\* login: setAuthState before the first await
LoginStart(prev) == [prev EXCEPT !.isLoading = TRUE, !.error = Null]

\* faulty variant of the update after a login: the tokens are left out
LoginSuccess_NoTokens(user, tokens) ==
  [isLoading |-> FALSE, isAuthenticated |-> TRUE, user |-> user,
   tokens |-> Null, error |-> Null]

\* login: "Update state" after exchange and getUserInfo
LoginSuccess(user, tokens) ==
  [isLoading |-> FALSE, isAuthenticated |-> TRUE, user |-> user,
   tokens |-> tokens, error |-> Null]

\* faulty variant of the update after a cancel: the session is dropped
LoginCancelled_Reset(prev) ==
  [isLoading |-> FALSE, isAuthenticated |-> FALSE, user |-> Null,
   tokens |-> Null, error |-> Null]

\* login: "User cancelled"
LoginCancelled(prev) == [prev EXCEPT !.isLoading = FALSE, !.error = Null]

\* faulty variant of the catch of login: isLoading is not cleared
LoginCatch_StillLoading(e) ==
  [isLoading |-> TRUE, isAuthenticated |-> FALSE, user |-> Null,
   tokens |-> Null,
   error |-> IF e.isError THEN Str(e.message) ELSE Str("Login failed")]

\* login: catch
LoginCatch(e) ==
  [isLoading |-> FALSE, isAuthenticated |-> FALSE, user |-> Null,
   tokens |-> Null,
   error |-> IF e.isError THEN Str(e.message) ELSE Str("Login failed")]

\* faulty variant of the guard of refreshUser: it never throws
NoActiveSession_Never(state) == FALSE

\* refreshUser: the guard that throws 'No active session'
NoActiveSession(state) ==
  ~Truthy(state.tokens) \/ ~Truthy(Get(state.tokens, "idToken"))

\* faulty variant of the update of refreshUser: the state is built anew and
\* the tokens are left out
RefreshUserUpdate_Rebuilt(prev, user) ==
  [isLoading |-> FALSE, isAuthenticated |-> TRUE, user |-> user,
   tokens |-> Null, error |-> Null]

\* refreshUser: setAuthState((prev) => ({ ...prev, user }))
RefreshUserUpdate(prev, user) == [prev EXCEPT !.user = user]

\* faulty variant of getAccessToken: the expiry test is left out
AccessTokenResult_Unchecked(tokens, t) ==
  IF ~Truthy(tokens) THEN Null ELSE Get(tokens, "accessToken")

\* getAccessToken: what it returns for the tokens getStoredTokens gave
AccessTokenResult(tokens, t) ==
  IF ~Truthy(tokens) \/ AreTokensExpired(tokens, t)
    THEN Null
    ELSE Get(tokens, "accessToken")

\* ------------------------------------------------ browser-session results
\* the callback URL, kept as its query parameters
Url(params) == [k |-> "url", params |-> params]
\* new URL(url).searchParams.get(name)
SearchParam(url, name) ==
  IF name \in DOMAIN url.params THEN Str(url.params[name]) ELSE Null

BrowserResult(type, url) == [type |-> type, url |-> url]
\* no result: the browser session was not opened, or the call threw
NoResult == BrowserResult("", Undefined)
Threw == BrowserResult("threw", Undefined)

\* faulty variant of the code test: the test is left out
HasCode_Unchecked(url) == TRUE

\* login: const code = url.searchParams.get('code'); if (!code) throw
HasCode(url) == Truthy(SearchParam(url, "code"))

\* faulty variant of the cancel test: every outcome but success is a cancel
IsCancel_AnyNonSuccess(type) == type # "success"

\* login: result.type === 'dismiss' || result.type === 'cancel'
IsCancel(type) == type \in {"dismiss", "cancel"}
BrowserResults ==
  {BrowserResult("success", Url([code |-> "c1"])),
   BrowserResult("success", Url([code |-> ""])),
   BrowserResult("success", Url([error |-> "access_denied"])),
   BrowserResult("cancel", Undefined),
   BrowserResult("dismiss", Undefined),
   BrowserResult("locked", Undefined)}

\* the verifiers the random source may produce
Verifiers == {"v1", "v2"}

\* the bodies of a non-success token response
ErrorBodies == {"invalid_grant", ""}

\* ------------------------------------------------------------------ state
VARIABLES
  authState,  \* the provider's AuthState
  store,      \* the secure store: key -> stored string, Null when absent
  now,        \* Date.now(), ms
  calls,      \* per operation: where its current call is, and its locals
  ncalls,     \* how many calls were started after the first mount
  config      \* this.config of the ScalekitAuth service, as the constructor left it

vars == <<authState, store, now, calls, ncalls, config>>

\* the operations of the provider; initAuth is the startup restore
\* ("login2" is a second login() call running beside the first)
Slots ==
  {"initAuth", "login", "login2", "logout", "refreshUser", "getAccessToken"}
Logins == {"login", "login2"}

\* a call slot with no call
Idle ==
  [pc |-> "idle", tokens |-> Undefined, user |-> Undefined,
   verifier |-> Undefined, result |-> NoResult,
   failed |-> {}, req |-> 0, opened |-> 0, body |-> Undefined,
   challenge |-> "", authUrl |-> Undefined, sent |-> Undefined, auth0 |-> InitialAuthState,
   store0 |-> [x \in Keys |-> Null],
   ret |-> [kind |-> "none", value |-> Undefined]]

\* a call that starts now at step pc
Started(pc) ==
  [Idle EXCEPT !.pc = pc, !.auth0 = authState, !.store0 = store]

\* the call returns (kind = "resolved") or throws to its caller ("rejected")
Finish(r, kind, value) ==
  [r EXCEPT !.pc = "done", !.ret = [kind |-> kind, value |-> value]]

InFlight(c) == calls[c].pc \notin {"idle", "done"}
Quiet == \A c \in Slots : ~InFlight(c)

\* starting a call forgets the results of the calls that returned before,
\* unless another call is still in flight
Begin(c, r) ==
  [x \in Slots |-> IF x = c THEN r ELSE IF Quiet THEN Idle ELSE calls[x]]

\* what a previous run of the program may have left in the store; the user
\* claims left there need not be those of the stored identity token (a login
\* whose write of the claims failed leaves the claims of the login before)
InitStores ==
  {[x \in Keys |->
      CASE x = TOKENS -> t
        [] x = USER_INFO -> u
        [] OTHER -> v] :
    t \in {Null, CorruptBlob}
          \cup {JsonStringify(MakeTokens(TokenResponse(IdU1, e), 0)) :
                  e \in ExpiresIns}
          \cup {JsonStringify(MakeTokens(TokenResponse(Undefined, Num(120)), 0))},
    u \in {Null, CorruptBlob, JsonStringify(PayloadClaims("p2"))},
    v \in {Null, Str("v0")}}

\* the provider mounts: initAuth is started by the effect
Init ==
  /\ authState = InitialAuthState
  /\ store \in InitStores
  /\ now = 0
  /\ ncalls = 0
  /\ config = DefaultConfig
  /\ calls = [x \in Slots |->
               IF x = "initAuth"
                 THEN [Idle EXCEPT !.pc = "getStoredTokens", !.store0 = store]
                 ELSE Idle]

\* Date.now() is read by three steps only: the session test of initAuth (it
\* follows getStoredUserInfo), the token record built from the response of
\* the fetch, and the expiry test of getAccessToken.
ReadsClock(c) ==
  \/ c = "initAuth" /\ calls[c].pc = "getStoredUserInfo"
  \/ c \in Logins /\ calls[c].pc = "fetch"
  \/ c = "getAccessToken" /\ calls[c].pc = "getStoredTokens"

\* time passes.  A call observes the clock only in a step that reads it, so
\* the clock advances between calls and before such a step.  The record of a
\* call that returned is kept until time passes or the next call starts.
Tick ==
  /\ now < MaxTicks * TickMs
  /\ Quiet \/ \E c \in Slots : ReadsClock(c)
  /\ now' = now + TickMs
  /\ calls' = IF Quiet THEN [x \in Slots |-> Idle] ELSE calls
  /\ UNCHANGED <<authState, store, ncalls, config>>

\* ------------------------------------------------------- startup restore
\* await authService.getStoredTokens()
InitGetStoredTokens ==
  /\ calls["initAuth"].pc = "getStoredTokens"
  /\ \E ok \in BOOLEAN :
       calls' = [calls EXCEPT !["initAuth"] =
         [@ EXCEPT !.pc = "getStoredUserInfo",
                   !.tokens = GetStored(store[TOKENS], ok),
                   !.failed = IF ok THEN @ ELSE @ \cup {"getItem:tokens"}]]
  /\ UNCHANGED <<authState, store, now>>
  /\ UNCHANGED <<ncalls, config>>

\* await authService.getStoredUserInfo(), then the if of initAuth
InitGetStoredUserInfo ==
  /\ calls["initAuth"].pc = "getStoredUserInfo"
  /\ \E ok \in BOOLEAN :
       LET r == [calls["initAuth"] EXCEPT
                   !.user = GetStored(store[USER_INFO], ok),
                   !.failed = IF ok THEN @ ELSE @ \cup {"getItem:user"}]
       IN IF RestoreSessionValid(r.tokens, r.user, now)
            THEN /\ authState' = RestoreValid(r.user, r.tokens)
                 /\ calls' = [calls EXCEPT !["initAuth"] =
                                Finish(r, "resolved", Undefined)]
            ELSE IF Truthy(r.tokens)
              THEN \* "Clean up expired tokens": authService.logout()
                   /\ calls' = [calls EXCEPT !["initAuth"] =
                                  [r EXCEPT !.pc = "deleting"]]
                   /\ UNCHANGED authState
              ELSE /\ authState' = RestoreNone
                   /\ calls' = [calls EXCEPT !["initAuth"] =
                                  Finish(r, "resolved", Undefined)]
  /\ UNCHANGED <<store, now>>
  /\ UNCHANGED <<ncalls, config>>

\* faulty variant of authService.logout(): the verifier key is not deleted
ServiceLogoutStore_KeepsVerifier(failedKeys) ==
  [x \in Keys |->
     IF x \in failedKeys \/ x = CODE_VERIFIER THEN store[x] ELSE Null]

\* faulty variant of authService.logout(): the deletes are awaited one after
\* the other, so that a failure leaves the keys after it in place
ServiceLogoutStore_StopsAtFailure(failedKeys) ==
  [x \in Keys |->
     CASE failedKeys = {} -> Null
       [] TOKENS \in failedKeys -> store[x]
       [] USER_INFO \in failedKeys -> IF x = TOKENS THEN Null ELSE store[x]
       [] OTHER -> IF x = CODE_VERIFIER THEN store[x] ELSE Null]

\* authService.logout(): Promise.all of the three deleteItemAsync calls.  All
\* three are issued; each removes its key or fails and leaves it (failedKeys);
\* the await throws when one of them failed.
ServiceLogoutStore(failedKeys) ==
  [x \in Keys |-> IF x \in failedKeys THEN store[x] ELSE Null]

ServiceLogoutFailures(failedKeys) == {"deleteItem:" \o x : x \in failedKeys}

\* initAuth: await authService.logout(), then the state update or the catch
InitCleanup ==
  /\ calls["initAuth"].pc = "deleting"
  /\ \E failedKeys \in SUBSET Keys :
       /\ store' = ServiceLogoutStore(failedKeys)
       /\ authState' = IF failedKeys # {} THEN RestoreCatch ELSE RestoreNone
       /\ calls' = [calls EXCEPT !["initAuth"] =
            Finish([@ EXCEPT !.failed = @ \cup ServiceLogoutFailures(failedKeys)],
                   "resolved", Undefined)]
  /\ UNCHANGED now
  /\ UNCHANGED <<ncalls, config>>

\* ----------------------------------------------------------------- logout
LogoutCall ==
  /\ Quiet
  /\ ncalls < MaxCalls
  /\ authState' = LogoutStart(authState)
  /\ calls' = Begin("logout", Started("deleting"))
  /\ UNCHANGED <<store, now>>
  /\ ncalls' = ncalls + 1
  /\ UNCHANGED config

\* logout: await authService.logout(), then the state update or the catch
LogoutDelete ==
  /\ calls["logout"].pc = "deleting"
  /\ \E failedKeys \in SUBSET Keys :
       /\ store' = ServiceLogoutStore(failedKeys)
       /\ authState' = IF failedKeys # {} THEN LogoutCatch(authState)
                                          ELSE LogoutSuccess
       /\ calls' = [calls EXCEPT !["logout"] =
            Finish([@ EXCEPT !.failed = ServiceLogoutFailures(failedKeys)],
                   "resolved", Undefined)]
  /\ UNCHANGED now
  /\ UNCHANGED <<ncalls, config>>

\* ------------------------------------------------------------------ login
LoginCall ==
  /\ Quiet
  /\ ncalls < MaxCalls
  /\ authState' = LoginStart(authState)
  /\ calls' = Begin("login", Started("getRandomBytes"))
  /\ UNCHANGED <<store, now>>
  /\ ncalls' = ncalls + 1
  /\ UNCHANGED config

\* faulty variant of login: no catch, the error is thrown to the caller
LoginThrow_Uncaught(c, r, step, e) ==
  /\ UNCHANGED authState
  /\ calls' = [calls EXCEPT ![c] =
       Finish([r EXCEPT !.failed = @ \cup {step}], "rejected", Str(e.message))]

\* faulty variant of login: a token request that was answered with a
\* non-success status is sent once more
LoginThrow_Retry(c, r, step, e) ==
  IF step = "response-not-ok" /\ r.req < 2
    THEN /\ UNCHANGED authState
         /\ calls' = [calls EXCEPT ![c] =
              [r EXCEPT !.pc = "getVerifier", !.failed = @ \cup {step}]]
    ELSE /\ authState' = LoginCatch(e)
         /\ calls' = [calls EXCEPT ![c] =
              Finish([r EXCEPT !.failed = @ \cup {step}], "resolved", Undefined)]

\* the catch of login: the error goes to the state and login() returns
LoginThrow(c, r, step, e) ==
  /\ authState' = LoginCatch(e)
  /\ calls' = [calls EXCEPT ![c] =
       Finish([r EXCEPT !.failed = @ \cup {step}], "resolved", Undefined)]

\* generateCodeVerifier: await Crypto.getRandomBytesAsync(32)
LoginRandomBytesOf(c) ==
  /\ calls[c].pc = "getRandomBytes"
  /\ \/ \E v \in Verifiers :
          /\ calls' = [calls EXCEPT ![c] =
                         [@ EXCEPT !.pc = "digest", !.verifier = Str(v)]]
          /\ UNCHANGED authState
     \/ \E e \in CollaboratorThrows :
          LoginThrow(c, calls[c], "getRandomBytes", e)
  /\ UNCHANGED <<store, now>>
  /\ UNCHANGED <<ncalls, config>>

\* generateCodeChallenge: await Crypto.digestStringAsync(SHA256, verifier)
LoginDigestOf(c) ==
  /\ calls[c].pc = "digest"
  /\ \/ /\ calls' = [calls EXCEPT ![c] =
                       [@ EXCEPT !.pc = "setVerifier",
                                 !.challenge = CodeChallenge(calls[c].verifier.s)]]
        /\ UNCHANGED authState
     \/ \E e \in CollaboratorThrows : LoginThrow(c, calls[c], "digest", e)
  /\ UNCHANGED <<store, now>>
  /\ UNCHANGED <<ncalls, config>>

\* faulty variant of the write of the verifier: nothing is written
StoreVerifier_Skipped(s, codeVerifier) == s

\* login: "Store code verifier for later use"
StoreVerifier(s, codeVerifier) == [s EXCEPT ![CODE_VERIFIER] = codeVerifier]

\* await SecureStore.setItemAsync(CODE_VERIFIER, codeVerifier), then the
\* authorization URL is built and the browser session is opened
LoginStoreVerifierOf(c) ==
  /\ calls[c].pc = "setVerifier"
  /\ \/ /\ store' = StoreVerifier(store, calls[c].verifier)
        /\ calls' = [calls EXCEPT ![c] =
                       [@ EXCEPT !.pc = "browser", !.opened = @ + 1,
                                 !.authUrl = Url(AuthorizationParams(
                                               config, calls[c].challenge))]]
        /\ UNCHANGED authState
     \/ /\ \E e \in CollaboratorThrows :
             LoginThrow(c, calls[c], "setItem:verifier", e)
        /\ UNCHANGED store
  /\ UNCHANGED now
  /\ UNCHANGED <<ncalls, config>>

\* await WebBrowser.openAuthSessionAsync(...), then the branches of login
LoginBrowserOf(c) ==
  /\ calls[c].pc = "browser"
  /\ \/ \E res \in BrowserResults :
          LET r == [calls[c] EXCEPT !.result = res]
          IN IF res.type = "success" /\ Truthy(res.url)
               THEN IF ~HasCode(res.url)
                      THEN LoginThrow(c, r, "no-code",
                             Err("No authorization code received"))
                      ELSE \* exchangeCodeForTokens: getItemAsync(CODE_VERIFIER)
                           /\ calls' = [calls EXCEPT ![c] =
                                          [r EXCEPT !.pc = "getVerifier"]]
                           /\ UNCHANGED authState
               ELSE IF IsCancel(res.type)
                 THEN /\ authState' = LoginCancelled(authState)
                      /\ calls' = [calls EXCEPT ![c] =
                                     Finish(r, "resolved", Undefined)]
                 ELSE LoginThrow(c, r, "not-successful",
                        Err("Authentication was not successful"))
     \/ \E e \in BrowserThrows :
          LoginThrow(c, [calls[c] EXCEPT !.result = Threw],
                     "openAuthSession", e)
  /\ UNCHANGED <<store, now>>
  /\ UNCHANGED <<ncalls, config>>

\* faulty variant of the verifier test: the test is left out
VerifierMissing_Unchecked(codeVerifier) == FALSE

\* exchangeCodeForTokens: if (!codeVerifier) throw
VerifierMissing(codeVerifier) == ~Truthy(codeVerifier)

\* exchangeCodeForTokens: the verifier is read back and the POST is sent
LoginGetVerifierOf(c) ==
  /\ calls[c].pc = "getVerifier"
  /\ \/ IF VerifierMissing(store[CODE_VERIFIER])
          THEN LoginThrow(c, calls[c], "no-verifier",
                 Err("Code verifier not found. Please restart the login flow."))
          ELSE /\ calls' = [calls EXCEPT ![c] =
                              [@ EXCEPT !.pc = "fetch", !.req = @ + 1,
                                        !.sent = store[CODE_VERIFIER]]]
               /\ UNCHANGED authState
     \/ \E e \in CollaboratorThrows :
          LoginThrow(c, calls[c], "getItem:verifier", e)
  /\ UNCHANGED <<store, now>>
  /\ UNCHANGED <<ncalls, config>>

\* exchangeCodeForTokens: throw new Error(`Token exchange failed: ${errorData}`)
ExchangeFailed_NoBody(errorData) == Err("Token exchange failed")

ExchangeFailed(errorData) == Err("Token exchange failed: " \o errorData)

\* exchangeCodeForTokens: the response of the token endpoint. A response that
\* is not ok has its body read with response.text(), which may throw as well
LoginFetchOf(c) ==
  /\ calls[c].pc = "fetch"
  /\ \/ \E data \in TokenResponses :
          /\ calls' = [calls EXCEPT ![c] =
                         [@ EXCEPT !.pc = "setTokens",
                                   !.tokens = MakeTokens(data, now)]]
          /\ UNCHANGED authState
     \/ \E body \in ErrorBodies :
          LoginThrow(c, [calls[c] EXCEPT !.body = Str(body)],
                     "response-not-ok", ExchangeFailed(body))
     \/ \E e \in CollaboratorThrows :
          \/ LoginThrow(c, calls[c], "fetch", e)
          \/ LoginThrow(c, calls[c], "response.text", e)
  /\ UNCHANGED <<store, now>>
  /\ UNCHANGED <<ncalls, config>>

\* await SecureStore.setItemAsync(TOKENS, JSON.stringify(tokens))
LoginStoreTokensOf(c) ==
  /\ calls[c].pc = "setTokens"
  /\ \/ /\ store' = [store EXCEPT ![TOKENS] = JsonStringify(calls[c].tokens)]
        /\ calls' = [calls EXCEPT ![c] = [@ EXCEPT !.pc = "deleteVerifier"]]
        /\ UNCHANGED authState
     \/ /\ \E e \in CollaboratorThrows :
             LoginThrow(c, calls[c], "setItem:tokens", e)
        /\ UNCHANGED store
  /\ UNCHANGED now
  /\ UNCHANGED <<ncalls, config>>

\* faulty variant of the clean-up of the verifier: nothing is deleted
DeleteVerifier_Skipped(s) == s

\* exchangeCodeForTokens: "Clean up code verifier"
DeleteVerifier(s) == [s EXCEPT ![CODE_VERIFIER] = Null]

\* await SecureStore.deleteItemAsync(CODE_VERIFIER); exchangeCodeForTokens
\* returns; login tests tokens.idToken; getUserInfo decodes it
LoginDeleteVerifierOf(c) ==
  /\ calls[c].pc = "deleteVerifier"
  /\ \/ /\ store' = DeleteVerifier(store)
        /\ LET r == calls[c]
               idToken == Get(r.tokens, "idToken")
           IN IF ~Truthy(idToken)
                THEN LoginThrow(c, r, "no-id-token",
                       Err("No id_token received from Scalekit"))
                ELSE IF ~DecodeOk(idToken)
                  THEN LoginThrow(c, r, "decode",
                         Err("Failed to decode user information from id_token"))
                  ELSE /\ calls' = [calls EXCEPT ![c] =
                                      [r EXCEPT !.pc = "setUser",
                                                !.user = DecodeIdToken(idToken)]]
                       /\ UNCHANGED authState
     \/ /\ \E e \in CollaboratorThrows :
             LoginThrow(c, calls[c], "deleteItem:verifier", e)
        /\ UNCHANGED store
  /\ UNCHANGED now
  /\ UNCHANGED <<ncalls, config>>

\* getUserInfo: await SecureStore.setItemAsync(USER_INFO, ...); login sets
\* the Authenticated state
LoginStoreUserOf(c) ==
  /\ calls[c].pc = "setUser"
  /\ \/ /\ store' = [store EXCEPT ![USER_INFO] = JsonStringify(calls[c].user)]
        /\ authState' = LoginSuccess(calls[c].user, calls[c].tokens)
        /\ calls' = [calls EXCEPT ![c] = Finish(@, "resolved", Undefined)]
     \/ /\ \E e \in CollaboratorThrows :
             LoginThrow(c, calls[c], "setItem:user", e)
        /\ UNCHANGED store
  /\ UNCHANGED now
  /\ UNCHANGED <<ncalls, config>>

\* the steps of the login() call of the provider
LoginRandomBytes == LoginRandomBytesOf("login")
LoginDigest == LoginDigestOf("login")
LoginStoreVerifier == LoginStoreVerifierOf("login")
LoginBrowser == LoginBrowserOf("login")
LoginGetVerifier == LoginGetVerifierOf("login")
LoginFetch == LoginFetchOf("login")
LoginStoreTokens == LoginStoreTokensOf("login")
LoginDeleteVerifier == LoginDeleteVerifierOf("login")
LoginStoreUser == LoginStoreUserOf("login")

\* ------------------------------------------------------------ refreshUser
\* the guard and decodeIdToken run before the first await
RefreshUserCall ==
  /\ Quiet
  /\ ncalls < MaxCalls
  /\ LET idToken == Get(authState.tokens, "idToken")
     IN calls' = Begin("refreshUser",
          IF NoActiveSession(authState)
            THEN Finish([Started("guard") EXCEPT !.failed = {"no-session"}],
                        "rejected", Str("No active session"))
            ELSE IF ~DecodeOk(idToken)
              THEN Finish([Started("decode") EXCEPT !.failed = {"decode"}],
                     "rejected",
                     Str("Failed to decode user information from id_token"))
              ELSE [Started("setUser") EXCEPT !.user = DecodeIdToken(idToken)])
  /\ UNCHANGED <<authState, store, now>>
  /\ ncalls' = ncalls + 1
  /\ UNCHANGED config

\* getUserInfo: await SecureStore.setItemAsync(USER_INFO, ...)
RefreshUserStore ==
  /\ calls["refreshUser"].pc = "setUser"
  /\ \/ /\ store' = [store EXCEPT ![USER_INFO] =
                       JsonStringify(calls["refreshUser"].user)]
        /\ authState' = RefreshUserUpdate(authState, calls["refreshUser"].user)
        /\ calls' = [calls EXCEPT !["refreshUser"] =
                       Finish(@, "resolved", Undefined)]
     \/ /\ calls' = [calls EXCEPT !["refreshUser"] =
                       Finish([@ EXCEPT !.failed = {"setItem:user"}],
                              "rejected", Str("collaborator failed"))]
        /\ UNCHANGED <<authState, store>>
  /\ UNCHANGED now
  /\ UNCHANGED <<ncalls, config>>

\* --------------------------------------------------------- getAccessToken
GetAccessTokenCall ==
  /\ Quiet
  /\ ncalls < MaxCalls
  /\ calls' = Begin("getAccessToken", Started("getStoredTokens"))
  /\ UNCHANGED <<authState, store, now>>
  /\ ncalls' = ncalls + 1
  /\ UNCHANGED config

\* await authService.getStoredTokens(), then the test and the return
GetAccessTokenRead ==
  /\ calls["getAccessToken"].pc = "getStoredTokens"
  /\ \E ok \in BOOLEAN :
       LET tokens == GetStored(store[TOKENS], ok)
       IN calls' = [calls EXCEPT !["getAccessToken"] =
            Finish([@ EXCEPT !.tokens = tokens,
                             !.failed = IF ok THEN @ ELSE {"getItem:tokens"}],
                   "resolved", AccessTokenResult(tokens, now))]
  /\ UNCHANGED <<authState, store, now>>
  /\ UNCHANGED <<ncalls, config>>

\* ------------------------------------------------------------------ mount
\* a new mount of the provider (the app is started again): the AuthState is
\* created anew, the store is what it was, and initAuth runs
Remount ==
  /\ Quiet
  /\ ncalls < MaxCalls
  /\ authState' = InitialAuthState
  /\ calls' = Begin("initAuth", Started("getStoredTokens"))
  /\ UNCHANGED <<store, now>>
  /\ ncalls' = ncalls + 1
  /\ UNCHANGED config

Next ==
  \/ Tick
  \/ InitGetStoredTokens
  \/ InitGetStoredUserInfo
  \/ InitCleanup
  \/ LogoutCall
  \/ LogoutDelete
  \/ LoginCall
  \/ LoginRandomBytes
  \/ LoginDigest
  \/ LoginStoreVerifier
  \/ LoginBrowser
  \/ LoginGetVerifier
  \/ LoginFetch
  \/ LoginStoreTokens
  \/ LoginDeleteVerifier
  \/ LoginStoreUser
  \/ RefreshUserCall
  \/ RefreshUserStore
  \/ GetAccessTokenCall
  \/ GetAccessTokenRead
  \/ Remount

Spec == Init /\ [][Next]_vars

\* ------------------------------------------ a logout that overlaps a login
\* The provider does not keep a caller from calling logout() while a login()
\* is in flight (the browser session may stay open for long).  This
\* specification follows one login() from its call, in a provider whose
\* restore has ended, with at most one logout() called while it is in flight.

\* logout() called while login() is in flight
LogoutCallOverlapping ==
  /\ InFlight("login")
  /\ calls["logout"].pc = "idle"
  /\ authState' = LogoutStart(authState)
  /\ calls' = Begin("logout", Started("deleting"))
  /\ UNCHANGED <<store, now, ncalls, config>>

\* the stores the login starts over: empty, or holding a session
OverlapStores ==
  {[x \in Keys |-> Null],
   [x \in Keys |->
      CASE x = TOKENS ->
             JsonStringify(MakeTokens(TokenResponse(IdU1, Num(120)), 0))
        [] x = USER_INFO -> JsonStringify(PayloadClaims("p1"))
        [] OTHER -> Str("v0")]}

\* the AuthState the restore ended with over such a store (the reads return,
\* the record is not expired at time 0)
OverlapRestored(s) ==
  IF s[TOKENS] = Null
    THEN RestoreNone
    ELSE RestoreValid(GetStored(s[USER_INFO], TRUE), GetStored(s[TOKENS], TRUE))

\* login() has just been called
InitOverlap ==
  /\ store \in OverlapStores
  /\ authState = LoginStart(OverlapRestored(store))
  /\ now = 0
  /\ ncalls = 1
  /\ config = DefaultConfig
  /\ calls = [x \in Slots |->
               IF x = "login"
                 THEN [Idle EXCEPT !.pc = "getRandomBytes",
                                   !.auth0 = OverlapRestored(store),
                                   !.store0 = store]
                 ELSE Idle]

NextOverlap ==
  \/ LoginRandomBytes
  \/ LoginDigest
  \/ LoginStoreVerifier
  \/ LoginBrowser
  \/ LoginGetVerifier
  \/ LoginFetch
  \/ LoginStoreTokens
  \/ LoginDeleteVerifier
  \/ LoginStoreUser
  \/ LogoutCallOverlapping
  \/ LogoutDelete

SpecOverlap == InitOverlap /\ [][NextOverlap]_vars

\* ------------------------------------- callers that respect isLoading
\* The provider guards no operation.  This specification follows callers that
\* keep the convention about isLoading: login() and logout() are called only
\* while isLoading is false.  refreshUser() and getAccessToken() neither set
\* nor test isLoading and are called at any time, also during the restore.

\* login() called while isLoading is false
UsageLoginCall ==
  /\ ~authState.isLoading
  /\ ~InFlight("login")
  /\ ncalls < MaxCalls
  /\ authState' = LoginStart(authState)
  /\ calls' = Begin("login", Started("getRandomBytes"))
  /\ UNCHANGED <<store, now>>
  /\ ncalls' = ncalls + 1
  /\ UNCHANGED config

\* logout() called while isLoading is false
UsageLogoutCall ==
  /\ ~authState.isLoading
  /\ ~InFlight("logout")
  /\ ncalls < MaxCalls
  /\ authState' = LogoutStart(authState)
  /\ calls' = Begin("logout", Started("deleting"))
  /\ UNCHANGED <<store, now>>
  /\ ncalls' = ncalls + 1
  /\ UNCHANGED config

\* refreshUser() called at any time
UsageRefreshUserCall ==
  /\ ~InFlight("refreshUser")
  /\ ncalls < MaxCalls
  /\ LET idToken == Get(authState.tokens, "idToken")
     IN calls' = Begin("refreshUser",
          IF NoActiveSession(authState)
            THEN Finish([Started("guard") EXCEPT !.failed = {"no-session"}],
                        "rejected", Str("No active session"))
            ELSE IF ~DecodeOk(idToken)
              THEN Finish([Started("decode") EXCEPT !.failed = {"decode"}],
                     "rejected",
                     Str("Failed to decode user information from id_token"))
              ELSE [Started("setUser") EXCEPT !.user = DecodeIdToken(idToken)])
  /\ UNCHANGED <<authState, store, now>>
  /\ ncalls' = ncalls + 1
  /\ UNCHANGED config

\* getAccessToken() called at any time
UsageGetAccessTokenCall ==
  /\ ~InFlight("getAccessToken")
  /\ ncalls < MaxCalls
  /\ calls' = Begin("getAccessToken", Started("getStoredTokens"))
  /\ UNCHANGED <<authState, store, now>>
  /\ ncalls' = ncalls + 1
  /\ UNCHANGED config

\* the provider mounts over an empty store or over a stored session
InitUsage ==
  /\ authState = InitialAuthState
  /\ store \in OverlapStores
  /\ now = 0
  /\ ncalls = 0
  /\ config = DefaultConfig
  /\ calls = [x \in Slots |->
               IF x = "initAuth"
                 THEN [Idle EXCEPT !.pc = "getStoredTokens", !.store0 = store]
                 ELSE Idle]

NextUsage ==
  \/ InitGetStoredTokens
  \/ InitGetStoredUserInfo
  \/ InitCleanup
  \/ UsageLoginCall
  \/ LoginRandomBytes
  \/ LoginDigest
  \/ LoginStoreVerifier
  \/ LoginBrowser
  \/ LoginGetVerifier
  \/ LoginFetch
  \/ LoginStoreTokens
  \/ LoginDeleteVerifier
  \/ LoginStoreUser
  \/ UsageLogoutCall
  \/ LogoutDelete
  \/ UsageRefreshUserCall
  \/ RefreshUserStore
  \/ UsageGetAccessTokenCall
  \/ GetAccessTokenRead

SpecUsage == InitUsage /\ [][NextUsage]_vars

\* ------------------------------------------------- one login() to its end
\* One login() from its call, nothing else running.  Time may pass while the
\* browser session is open: login awaits openAuthSessionAsync and sets no
\* timer, so the only step that ends the wait is the collaborator's answer.
BrowserWait ==
  /\ calls["login"].pc = "browser"
  /\ now < MaxTicks * TickMs
  /\ now' = now + TickMs
  /\ UNCHANGED <<authState, store, calls, ncalls, config>>

NextLogin ==
  \/ LoginRandomBytes
  \/ LoginDigest
  \/ LoginStoreVerifier
  \/ BrowserWait
  \/ LoginBrowser
  \/ LoginGetVerifier
  \/ LoginFetch
  \/ LoginStoreTokens
  \/ LoginDeleteVerifier
  \/ LoginStoreUser

\* every crypto, store and network call returns or fails; the browser
\* session is under no such obligation
LoginFairness ==
  /\ WF_vars(LoginRandomBytes)
  /\ WF_vars(LoginDigest)
  /\ WF_vars(LoginStoreVerifier)
  /\ WF_vars(LoginGetVerifier)
  /\ WF_vars(LoginFetch)
  /\ WF_vars(LoginStoreTokens)
  /\ WF_vars(LoginDeleteVerifier)
  /\ WF_vars(LoginStoreUser)

SpecLogin == InitOverlap /\ [][NextLogin]_vars /\ LoginFairness

\* ------------------------------------------------- the restore to its end
\* The startup restore alone, from the mount over any store a previous run
\* may have left; every call of the secure store returns or fails.
NextRestore ==
  \/ Tick
  \/ InitGetStoredTokens
  \/ InitGetStoredUserInfo
  \/ InitCleanup

RestoreFairness ==
  /\ WF_vars(InitGetStoredTokens)
  /\ WF_vars(InitGetStoredUserInfo)
  /\ WF_vars(InitCleanup)

SpecRestore == Init /\ [][NextRestore]_vars /\ RestoreFairness

\* ------------------------------------------ login() under each configuration
\* The service is constructed from each of the configurations, the provider
\* has mounted over an empty store, and login() has just been called.
InitConfig ==
  /\ config \in {Constructor(cfg) : cfg \in Configs}
  /\ store = [x \in Keys |-> Null]
  /\ authState = LoginStart(OverlapRestored(store))
  /\ now = 0
  /\ ncalls = 1
  /\ calls = [x \in Slots |->
               IF x = "login"
                 THEN [Idle EXCEPT !.pc = "getRandomBytes",
                                   !.auth0 = OverlapRestored(store),
                                   !.store0 = store]
                 ELSE Idle]

\* the same under the default configuration only
InitConfigDefault == InitConfig /\ config = DefaultConfig

NextConfig ==
  \/ LoginRandomBytes
  \/ LoginDigest
  \/ LoginStoreVerifier
  \/ LoginBrowser
  \/ LoginGetVerifier
  \/ LoginFetch
  \/ LoginStoreTokens
  \/ LoginDeleteVerifier
  \/ LoginStoreUser

SpecConfig == InitConfig /\ [][NextConfig]_vars

\* ------------------------------------- sessions over each identity token
\* The provider mounts over what a login() left whose token record was
\* written and whose identity token then did or did not decode: a record with
\* each of the identity tokens, beside the user claims of the session before.
\* login() and refreshUser() are called one at a time.
InitRefresh ==
  /\ authState = InitialAuthState
  /\ \E id \in IdTokens :
       store = [x \in Keys |->
                  CASE x = TOKENS ->
                         JsonStringify(MakeTokens(TokenResponse(id, Num(120)), 0))
                    [] x = USER_INFO -> JsonStringify(PayloadClaims("p2"))
                    [] OTHER -> Null]
  /\ now = 0
  /\ ncalls = 0
  /\ config = DefaultConfig
  /\ calls = [x \in Slots |->
               IF x = "initAuth"
                 THEN [Idle EXCEPT !.pc = "getStoredTokens", !.store0 = store]
                 ELSE Idle]

NextRefresh ==
  \/ InitGetStoredTokens
  \/ InitGetStoredUserInfo
  \/ InitCleanup
  \/ LoginCall
  \/ LoginRandomBytes
  \/ LoginDigest
  \/ LoginStoreVerifier
  \/ LoginBrowser
  \/ LoginGetVerifier
  \/ LoginFetch
  \/ LoginStoreTokens
  \/ LoginDeleteVerifier
  \/ LoginStoreUser
  \/ RefreshUserCall
  \/ RefreshUserStore

SpecRefresh == InitRefresh /\ [][NextRefresh]_vars

\* ----------------------------------------------- two overlapping login()s
\* login() is called a second time while the first call is in flight (the
\* caller ignores isLoading).  Both calls run the same code over the one
\* secure store and the one AuthState.
SecondLoginCall ==
  /\ InFlight("login")
  /\ calls["login2"].pc = "idle"
  /\ authState' = LoginStart(authState)
  /\ calls' = Begin("login2", Started("getRandomBytes"))
  /\ UNCHANGED <<store, now, ncalls, config>>

SecondLoginRandomBytes == LoginRandomBytesOf("login2")
SecondLoginDigest == LoginDigestOf("login2")
SecondLoginStoreVerifier == LoginStoreVerifierOf("login2")
SecondLoginBrowser == LoginBrowserOf("login2")
SecondLoginGetVerifier == LoginGetVerifierOf("login2")
SecondLoginFetch == LoginFetchOf("login2")
SecondLoginStoreTokens == LoginStoreTokensOf("login2")
SecondLoginDeleteVerifier == LoginDeleteVerifierOf("login2")
SecondLoginStoreUser == LoginStoreUserOf("login2")

NextTwoLogins ==
  \/ LoginRandomBytes
  \/ LoginDigest
  \/ LoginStoreVerifier
  \/ LoginBrowser
  \/ LoginGetVerifier
  \/ LoginFetch
  \/ LoginStoreTokens
  \/ LoginDeleteVerifier
  \/ LoginStoreUser
  \/ SecondLoginCall
  \/ SecondLoginRandomBytes
  \/ SecondLoginDigest
  \/ SecondLoginStoreVerifier
  \/ SecondLoginBrowser
  \/ SecondLoginGetVerifier
  \/ SecondLoginFetch
  \/ SecondLoginStoreTokens
  \/ SecondLoginDeleteVerifier
  \/ SecondLoginStoreUser

SpecTwoLogins == InitConfigDefault /\ [][NextTwoLogins]_vars

\* ------------------------------------------- a session while time passes
\* Every operation, one at a time, and the clock, from a mount over an empty
\* store or over a stored session whose token record expires after two ticks.
SpecClock == InitUsage /\ [][Next]_vars

\* ------------------------------------------------- the expiry test alone
\* The expiry test applied to stored records whose expiresAt lies at chosen
\* distances from the clock: the provider mounts over such a record (initAuth
\* applies areTokensExpired), then getAccessToken is called (it applies the
\* same test).  The clock stands still, so the distance stays what it was.
ExpiryDeltas ==
  {0 - 1, BufferMs \div 2, BufferMs - 1, BufferMs, BufferMs + 1, 2 * BufferMs}

\* a stored token record with the given expiresAt
ExpiryRecord(at) ==
  Obj([x \in {"accessToken", "idToken", "tokenType", "expiresIn", "expiresAt"} |->
         CASE x = "accessToken" -> Str("at1")
           [] x = "idToken" -> IdU1
           [] x = "tokenType" -> Str("Bearer")
           [] x = "expiresIn" -> Num((2 * BufferMs) \div MsPerSecond)
           [] OTHER -> Num(at)])

InitExpiry ==
  /\ authState = InitialAuthState
  /\ now \in {i * TickMs : i \in 0..MaxTicks}
  /\ \E d \in ExpiryDeltas :
       store = [x \in Keys |->
                  CASE x = TOKENS -> JsonStringify(ExpiryRecord(now + d))
                    [] x = USER_INFO -> JsonStringify(PayloadClaims("p1"))
                    [] OTHER -> Null]
  /\ ncalls = 0
  /\ config = DefaultConfig
  /\ calls = [x \in Slots |->
               IF x = "initAuth"
                 THEN [Idle EXCEPT !.pc = "getStoredTokens", !.store0 = store]
                 ELSE Idle]

NextExpiry ==
  \/ InitGetStoredTokens
  \/ InitGetStoredUserInfo
  \/ InitCleanup
  \/ GetAccessTokenCall
  \/ GetAccessTokenRead

SpecExpiry == InitExpiry /\ [][NextExpiry]_vars


\* ================================================================ claims
\* the call of operation c has returned (or thrown) and nothing happened since
Done(c) == calls[c].pc = "done"

\* a stored item that is a JSON record (a token record, user claims)
StoredRecord(item) == item.k = "json" /\ item.v.k = "obj"

\* the expiry policy: a record is expired when now >= expiresAt - 60000
PolicyExpired(rec, t) ==
  Get(rec, "expiresAt").k = "num" /\ t >= Get(rec, "expiresAt").n - BufferMs
PolicyNotExpired(rec, t) ==
  Get(rec, "expiresAt").k = "num" /\ t < Get(rec, "expiresAt").n - BufferMs

Unauthenticated ==
  authState.isAuthenticated = FALSE /\ authState.user = Null
    /\ authState.tokens = Null

\* ---- C1
\* C1: after every logout(), also when a delete of the store fails, the
\* AuthState has isAuthenticated = false, and when a delete failed the error
\* field is not null.
C1_LogoutEndsUnauthenticated ==
  Done("logout") =>
    /\ authState.isAuthenticated = FALSE
    /\ (calls["logout"].failed # {} => authState.error # Null)

\* ---- C2
\* the store held a token record that is not expired, and user claims, when
\* the restore started
C2_StoredValidSession ==
  LET r == calls["initAuth"]
  IN /\ StoredRecord(r.store0[TOKENS])
     /\ StoredRecord(r.store0[USER_INFO])
     /\ PolicyNotExpired(JsonParse(r.store0[TOKENS]), now)

C2_RestoredThatSession ==
  LET r == calls["initAuth"]
  IN /\ authState = [isLoading |-> FALSE, isAuthenticated |-> TRUE,
                     user |-> JsonParse(r.store0[USER_INFO]),
                     tokens |-> JsonParse(r.store0[TOKENS]),
                     error |-> Null]
     /\ store = r.store0

C3_StoredStaleSession ==
  LET r == calls["initAuth"]
  IN /\ StoredRecord(r.store0[TOKENS])
     /\ \/ PolicyExpired(JsonParse(r.store0[TOKENS]), now)
        \/ r.store0[USER_INFO] = Null

\* C3: such a restore ends with isAuthenticated = false, user = null,
\* tokens = null, and when no store call failed the three keys are absent
\* from the store, so that a later load of the tokens returns absent.
C3_RestoreStale ==
  (Done("initAuth") /\ C3_StoredStaleSession) =>
    /\ Unauthenticated
    /\ calls["initAuth"].failed = {} =>
         /\ \A x \in Keys : store[x] = Null
         /\ GetStored(store[TOKENS], TRUE) = Null

C3_Witness ==
  Done("initAuth") /\ C3_StoredStaleSession /\ calls["initAuth"].failed = {}
    /\ calls["initAuth"].store0[CODE_VERIFIER] # Null
    /\ \A x \in Keys : store[x] = Null

\* ---- C4
\* C4: when a store call of the restore fails (the read of the tokens, the
\* read of the user claims, a delete of the cleanup), the restore ends with
\* isLoading = false, isAuthenticated = false and an error that is not null.
C4_RestoreFailureReported ==
  (Done("initAuth") /\ calls["initAuth"].failed # {}) =>
    /\ authState.isLoading = FALSE
    /\ authState.isAuthenticated = FALSE
    /\ authState.error # Null

\* ---- C5
\* the browser session succeeded with a code, exchangeCodeForTokens returned
\* a token record, and its identity token decodes
C5_ExchangedAndDecoded ==
  LET r == calls["login"]
  IN /\ r.result.type = "success"
     /\ r.result.url.k = "url"
     /\ "code" \in DOMAIN r.result.url.params
     /\ r.tokens # Undefined
     /\ r.failed \cap {"setItem:tokens", "deleteItem:verifier"} = {}
     /\ Get(r.tokens, "idToken").k = "jwt"
     /\ DecodeOk(Get(r.tokens, "idToken"))

C5_LoggedIn ==
  LET r == calls["login"]
  IN /\ authState = [isLoading |-> FALSE, isAuthenticated |-> TRUE,
                     user |-> DecodeIdToken(Get(r.tokens, "idToken")),
                     tokens |-> r.tokens, error |-> Null]
     /\ store[TOKENS] = JsonStringify(r.tokens)
     /\ store[USER_INFO] =
          JsonStringify(DecodeIdToken(Get(r.tokens, "idToken")))

C6_Cancelled ==
  Done("login") /\ calls["login"].result.type \in {"cancel", "dismiss"}

\* C6 as stated: in whatever state login() is called, after a cancel or
\* dismiss outcome isAuthenticated = false, error = null, isLoading = false.
C6_CancelAsStated ==
  C6_Cancelled =>
    /\ authState.isAuthenticated = FALSE
    /\ authState.error = Null
    /\ authState.isLoading = FALSE

\* C6, amended: after a cancel or dismiss outcome error = null and
\* isLoading = false, and isAuthenticated, user and tokens are what they were
\* when login() was called: isAuthenticated = false when it was false then.
C6_Cancel ==
  C6_Cancelled =>
    /\ authState.error = Null
    /\ authState.isLoading = FALSE
    /\ authState.isAuthenticated = calls["login"].auth0.isAuthenticated
    /\ authState.user = calls["login"].auth0.user
    /\ authState.tokens = calls["login"].auth0.tokens

C6_Witness ==
  C6_Cancelled /\ calls["login"].result.type = "cancel"
    /\ ~calls["login"].auth0.isAuthenticated /\ ~authState.isAuthenticated

\* ---- C7
C7_SuccessWithoutCode ==
  LET r == calls["login"]
  IN /\ r.result.type = "success"
     /\ r.result.url.k = "url"
     /\ "code" \notin DOMAIN r.result.url.params

\* C7: a success outcome whose callback URL has no code parameter ends
\* login() with isAuthenticated = false, user = null, tokens = null,
\* isLoading = false and an error, and no request went to the token endpoint.
C7_NoCode ==
  (calls["login"].pc # "idle" /\ C7_SuccessWithoutCode) =>
    /\ Done("login")
    /\ Unauthenticated
    /\ authState.isLoading = FALSE
    /\ authState.error # Null
    /\ calls["login"].req = 0

C7_Witness == Done("login") /\ C7_SuccessWithoutCode

\* ---- C8
C8_OtherOutcome ==
  calls["login"].result.type \notin {"", "threw", "success", "cancel", "dismiss"}

\* C8: an outcome that is neither success nor cancel nor dismiss ends
\* login() with isAuthenticated = false, user = null, tokens = null,
\* isLoading = false and an error.
C8_NotSuccessful ==
  (calls["login"].pc # "idle" /\ C8_OtherOutcome) =>
    /\ Done("login")
    /\ Unauthenticated
    /\ authState.isLoading = FALSE
    /\ authState.error # Null

C8_Witness == Done("login") /\ C8_OtherOutcome

\* ---- C9
\* C9: login() never rejects: it returns, and when one of its steps failed
\* the error field is not null, isLoading = false, isAuthenticated = false.
C9_LoginNeverRejects ==
  Done("login") =>
    /\ calls["login"].ret.kind = "resolved"
    /\ calls["login"].failed # {} =>
         /\ authState.error # Null
         /\ authState.isLoading = FALSE
         /\ authState.isAuthenticated = FALSE

C9_Witness ==
  Done("login") /\ calls["login"].failed = {"setItem:user"}
    /\ calls["login"].auth0.isAuthenticated

\* ---- C10
\* C10: getAccessToken() never throws; it returns the stored access token
\* exactly when a token record is stored, readable and not expired, and null
\* otherwise.
C10_GetAccessToken ==
  Done("getAccessToken") =>
    LET r == calls["getAccessToken"]
        usable == /\ r.failed = {}
                  /\ StoredRecord(store[TOKENS])
                  /\ PolicyNotExpired(JsonParse(store[TOKENS]), now)
    IN /\ r.ret.kind = "resolved"
       /\ r.ret.value = IF usable
                          THEN Get(JsonParse(store[TOKENS]), "accessToken")
                          ELSE Null

C10_Witness ==
  Done("getAccessToken") /\ calls["getAccessToken"].ret.value = Str("at1")

\* ---- C11
\* refreshUser() was called in a state with no token record, or with a token
\* record that has no identity token
C11_CalledWithoutSession ==
  LET a == calls["refreshUser"].auth0
  IN a.tokens = Null \/ Get(a.tokens, "idToken") = Undefined

\* C11: refreshUser() called in a state with no token record or no identity
\* token throws 'No active session' to its caller, and the AuthState and the
\* secure store are what they were when it was called.
C11_NoActiveSession ==
  (calls["refreshUser"].pc # "idle" /\ C11_CalledWithoutSession) =>
    /\ Done("refreshUser")
    /\ calls["refreshUser"].ret =
         [kind |-> "rejected", value |-> Str("No active session")]
    /\ authState = calls["refreshUser"].auth0
    /\ store = calls["refreshUser"].store0

C11_Witness ==
  /\ Done("refreshUser")
  /\ calls["refreshUser"].auth0.isAuthenticated
  /\ calls["refreshUser"].auth0.tokens # Null
  /\ Get(calls["refreshUser"].auth0.tokens, "idToken") = Undefined
  /\ calls["refreshUser"].ret.kind = "rejected"

\* ---- C12
\* refreshUser() returned without throwing
C12_Refreshed ==
  Done("refreshUser") /\ calls["refreshUser"].ret.kind = "resolved"

\* C12: after a refreshUser() that returned, the AuthState differs from the
\* one at the call in the user field only (tokens, isAuthenticated, isLoading
\* and error are what they were), the user is the claims decoded from the
\* identity token of the state, and the stored token record is unchanged.
C12_RefreshOnlyUser ==
  C12_Refreshed =>
    LET r == calls["refreshUser"]
    IN /\ authState.tokens = r.auth0.tokens
       /\ authState.isAuthenticated = r.auth0.isAuthenticated
       /\ authState.isLoading = r.auth0.isLoading
       /\ authState.error = r.auth0.error
       /\ authState.user = DecodeIdToken(Get(r.auth0.tokens, "idToken"))
       /\ store[TOKENS] = r.store0[TOKENS]

C12_Witness ==
  /\ C12_Refreshed
  /\ calls["refreshUser"].auth0.isAuthenticated
  /\ authState.user # calls["refreshUser"].auth0.user
  /\ store[USER_INFO] # calls["refreshUser"].store0[USER_INFO]

\* ---- C13
\* C13: in every reachable AuthState, isAuthenticated = true implies that
\* user is not null and tokens is not null.
C13_AuthenticatedHasUserAndTokens ==
  authState.isAuthenticated =>
    authState.user # Null /\ authState.tokens # Null

\* ---- C14
\* the step sets isAuthenticated to true: the session test of the startup
\* restore, or the state update that ends a login
C14_SetsAuthenticated ==
  /\ authState'.isAuthenticated
  /\ \/ calls["initAuth"].pc = "getStoredUserInfo"
        /\ calls'["initAuth"].pc = "done"
     \/ calls["login"].pc = "setUser" /\ calls'["login"].pc = "done"

\* C14: every step that sets isAuthenticated to true does so with a token
\* record that is not expired under the expiry policy at that moment
\* (now < expiresAt - 60000), whatever expires_in the server supplied.
C14_AuthenticatedOnlyUnexpired ==
  [][C14_SetsAuthenticated => PolicyNotExpired(authState'.tokens, now')]_vars

\* the part of C14 that is about the startup restore
C14_RestoreOnlyUnexpired ==
  [][(C14_SetsAuthenticated /\ calls["initAuth"].pc = "getStoredUserInfo")
       => PolicyNotExpired(authState'.tokens, now')]_vars

\* ---- C15
\* while a login() or logout() call has a step ahead of it (from before its
\* first crypto, store, browser or network step until its terminal update),
\* isLoading is true
C15_LoadingWhileInFlight ==
  \A c \in {"login", "logout"} : InFlight(c) => authState.isLoading

\* a step taken while a login() or logout() call is in flight that sets
\* isLoading back to false is the step that ends that call
C15_ClearedByTerminalUpdate ==
  \A c \in {"login", "logout"} :
    (InFlight(c) /\ authState.isLoading /\ ~authState'.isLoading)
      => calls'[c].pc = "done"

\* C15: in every login() and logout() call isLoading is set to true before
\* the first crypto, secure-store, browser or network step of the call
\* starts, and it is set back to false only by the terminal state update of
\* the call.
C15_IsLoadingOrdering ==
  []C15_LoadingWhileInFlight /\ [][C15_ClearedByTerminalUpdate]_vars

\* login() was called with isLoading = false and its first step (the random
\* bytes of the verifier) has not started
C15_Witness ==
  /\ calls["login"].pc = "getRandomBytes"
  /\ ~calls["login"].auth0.isLoading
  /\ authState.isLoading

\* ---- C16
\* the expiresAt of a stored token record
C16_ExpiresAt(item) == Get(JsonParse(item), "expiresAt").n

\* the restore read a stored token record and stored user claims: it ends
\* Authenticated exactly when the record is not expired
C16_RestoreAppliesPolicy ==
  LET r == calls["initAuth"]
      at == C16_ExpiresAt(r.store0[TOKENS])
  IN (Done("initAuth") /\ r.failed \cap {"getItem:tokens", "getItem:user"} = {})
       => /\ authState.isAuthenticated = ~(now >= at - 60000)
          /\ at = now + 120000 => authState.isAuthenticated
          /\ at \in {now + 30000, now + 60000, now - 1}
               => ~authState.isAuthenticated

\* getAccessToken() read a stored token record: it returns the access token
\* exactly when the record is not expired
C16_GetAccessTokenAppliesPolicy ==
  LET r == calls["getAccessToken"]
      at == C16_ExpiresAt(store[TOKENS])
  IN (Done("getAccessToken") /\ r.failed = {} /\ StoredRecord(store[TOKENS]))
       => /\ (r.ret.value = Null) = (now >= at - 60000)
          /\ at = now + 120000 => r.ret.value = Str("at1")
          /\ at \in {now + 30000, now + 60000, now - 1} => r.ret.value = Null

\* C16: a token record is expired exactly when now >= expiresAt - 60000:
\* expiresAt = now + 120000 is not expired; now + 30000, now + 60000 and
\* now - 1 are expired; the startup restore and getAccessToken() both apply
\* this test.
C16_ExpiryPolicy ==
  /\ \A d \in ExpiryDeltas :
       AreTokensExpired(ExpiryRecord(now + d), now)
         = (now >= (now + d) - 60000)
  /\ C16_RestoreAppliesPolicy
  /\ C16_GetAccessTokenAppliesPolicy

\* getAccessToken() returned null for a stored record with
\* expiresAt = now + 60000, the first expired value, after a restore whose
\* cleanup could not delete it
C16_Witness ==
  /\ Done("getAccessToken")
  /\ calls["getAccessToken"].failed = {}
  /\ StoredRecord(store[TOKENS])
  /\ C16_ExpiresAt(store[TOKENS]) = now + 60000
  /\ calls["getAccessToken"].ret.value = Null
  /\ ~authState.isAuthenticated

\* ---- C17
\* two values with the same content: objects are compared by what a read of
\* each property gives (a missing key reads as undefined)
C17_SameValue(a, b) ==
  IF a.k = "obj" /\ b.k = "obj"
    THEN \A x \in DOMAIN a.f \cup DOMAIN b.f : Get(a, x) = Get(b, x)
    ELSE a = b

\* the provider was mounted anew over what a successful login left: the
\* AuthState was Authenticated, its tokens and user were the records in the
\* store, and the restore ran before the token record expired
C17_MountedAfterLogin ==
  LET r == calls["initAuth"]
  IN /\ Done("initAuth")
     /\ r.auth0.isAuthenticated
     /\ r.store0[TOKENS] = JsonStringify(r.auth0.tokens)
     /\ r.store0[USER_INFO] = JsonStringify(r.auth0.user)
     /\ PolicyNotExpired(r.auth0.tokens, now)

\* C17: after a successful login(), a new mount whose restore runs before
\* the token record expires (and whose store calls all return) ends
\* Authenticated with exactly the user and the tokens of the login.
C17_RoundTrip ==
  (C17_MountedAfterLogin /\ calls["initAuth"].failed = {}) =>
    /\ authState.isAuthenticated
    /\ C17_SameValue(authState.user, calls["initAuth"].auth0.user)
    /\ C17_SameValue(authState.tokens, calls["initAuth"].auth0.tokens)

\* the part of C17 that holds: the same, for a login whose decoded user
\* claims are not null
C17_RoundTripOfClaims ==
  (C17_MountedAfterLogin /\ calls["initAuth"].failed = {}
     /\ calls["initAuth"].auth0.user # Null) =>
    /\ authState.isAuthenticated
    /\ C17_SameValue(authState.user, calls["initAuth"].auth0.user)
    /\ C17_SameValue(authState.tokens, calls["initAuth"].auth0.tokens)

\* ---- C18
\* the AuthState with no session, not loading, no error
C18_ClearedState ==
  [isLoading |-> FALSE, isAuthenticated |-> FALSE, user |-> Null,
   tokens |-> Null, error |-> Null]

\* a logout() in which no store call failed has returned
C18_LoggedOut == Done("logout") /\ calls["logout"].failed = {}

\* the provider was mounted anew over what such a logout left: the cleared
\* AuthState and a store without the three keys
C18_MountedAfterLogout ==
  /\ Done("initAuth")
  /\ calls["initAuth"].auth0 = C18_ClearedState
  /\ \A x \in Keys : calls["initAuth"].store0[x] = Null

\* C18: after a logout() in which no store call fails, the tokens, user and
\* verifier keys are absent from the store and the AuthState is
\* isLoading = false, isAuthenticated = false, user = null, tokens = null,
\* error = null; a startup restore that follows ends Unauthenticated.
C18_LogoutClears ==
  /\ C18_LoggedOut =>
       /\ \A x \in Keys : store[x] = Null
       /\ authState = C18_ClearedState
  /\ C18_MountedAfterLogout =>
       /\ Unauthenticated
       /\ authState.isLoading = FALSE
       /\ \A x \in Keys : store[x] = Null

\* logout() was called in an Authenticated state over a store that held a
\* token record, user claims and a verifier, and no delete failed
C18_Witness ==
  /\ C18_LoggedOut
  /\ calls["logout"].auth0.isAuthenticated
  /\ \A x \in Keys : calls["logout"].store0[x] # Null
  /\ \A x \in Keys : store[x] = Null

\* ---- C19
\* exchangeCodeForTokens has been called by login() (its read of the
\* verifier is the next step) and no verifier is stored
C19_CalledWithoutVerifier ==
  calls["login"].pc = "getVerifier" /\ store[CODE_VERIFIER] = Null

\* the error of exchangeCodeForTokens for a missing verifier, as login()
\* reports it
C19_MissingVerifier ==
  Str("Code verifier not found. Please restart the login flow.")

\* the step of exchangeCodeForTokens ends the call with the missing-verifier
\* error, without a request to the token endpoint, the stored token record
\* being what it was
C19_FailsUntouched ==
  /\ calls'["login"].pc = "done"
  /\ authState'.error = C19_MissingVerifier
  /\ calls'["login"].req = 0
  /\ store'[TOKENS] = store[TOKENS]

\* C19 as stated: exchangeCodeForTokens called when no verifier is stored
\* fails with the missing-verifier error, sends no request to the token
\* endpoint and leaves the stored token record unchanged.
C19_NoVerifierAsStated ==
  [][(C19_CalledWithoutVerifier /\ calls'["login"] # calls["login"])
       => C19_FailsUntouched]_vars

\* C19, amended: exchangeCodeForTokens called when no verifier is stored
\* fails, sends no request to the token endpoint and leaves the stored token
\* record unchanged; its error is the missing-verifier error provided the
\* read of the verifier key returns (when the read itself fails, the error
\* is that of the store).
C19_NoVerifier ==
  [][(C19_CalledWithoutVerifier /\ calls'["login"] # calls["login"])
       => /\ calls'["login"].pc = "done"
          /\ authState'.error # Null
          /\ calls'["login"].req = 0
          /\ store'[TOKENS] = store[TOKENS]
          /\ "getItem:verifier" \notin calls'["login"].failed
               => C19_FailsUntouched]_vars

\* login() ended with the missing-verifier error: a logout() called while
\* the login was in flight deleted the verifier and could not delete the
\* stored token record, which is still there
C19_Witness ==
  /\ Done("login")
  /\ "no-verifier" \in calls["login"].failed
  /\ authState.error = C19_MissingVerifier
  /\ calls["login"].req = 0
  /\ store[CODE_VERIFIER] = Null
  /\ store[TOKENS] # Null

\* ---- C20
\* the exchangeCodeForTokens call of login() has returned a token record:
\* login() is at its next step (the write of the user claims), or ended in a
\* step that follows the exchange
C20_ExchangeReturned ==
  LET r == calls["login"]
  IN /\ r.tokens # Undefined
     /\ \/ r.pc = "setUser"
        \/ /\ r.pc = "done"
           /\ r.req > 0
           /\ r.failed \subseteq {"no-id-token", "decode", "setItem:user"}

\* after the call returned, the verifier key is absent and the returned
\* record is what the tokens key holds
C20_VerifierGoneTokensStored ==
  C20_ExchangeReturned =>
    /\ store[CODE_VERIFIER] = Null
    /\ store[TOKENS] = JsonStringify(calls["login"].tokens)

\* the step of a login() that removes the verifier finds the token record
\* already stored
C20_DeletedAfterStored ==
  (InFlight("login") /\ store[CODE_VERIFIER] # Null
     /\ store'[CODE_VERIFIER] = Null)
    => store[TOKENS] = JsonStringify(calls["login"].tokens)

\* C20: after every exchangeCodeForTokens call that returns a token record
\* the verifier key is absent from the store and the returned record is the
\* one stored under the tokens key; the verifier is deleted only after the
\* token record was stored.
C20_ExchangeLeavesNoVerifier ==
  []C20_VerifierGoneTokensStored /\ [][C20_DeletedAfterStored]_vars

\* the exchange has just returned; the record it stored replaced an older one
C20_Witness ==
  /\ calls["login"].pc = "setUser"
  /\ calls["login"].store0[TOKENS] # Null
  /\ store[TOKENS] = JsonStringify(calls["login"].tokens)
  /\ store[TOKENS] # calls["login"].store0[TOKENS]
  /\ store[CODE_VERIFIER] = Null

\* ---- C21
\* login() stored a verifier and ended without a successful exchange: the
\* browser outcome was cancel, dismiss or another one, the callback had no
\* code, or the exchange failed
C21_Abandoned ==
  LET r == calls["login"]
  IN /\ Done("login")
     /\ r.result.type \notin {"", "threw"}
     /\ \/ r.result.type # "success"
        \/ r.failed \cap {"no-code", "no-verifier", "getItem:verifier",
                          "response-not-ok", "response.text", "fetch",
                          "setItem:tokens",
                          "deleteItem:verifier"} # {}

\* C21: after a login() that does not reach a successful exchange, the
\* verifier stored for that attempt is no longer in the secure store.
C21_VerifierRemovedOnAbandon ==
  C21_Abandoned => store[CODE_VERIFIER] # calls["login"].verifier

\* ---- C22
\* a blob that JSON.parse rejects
C22_Unparsable(item) == item # Null /\ ~JsonParses(item)

\* getAccessToken() read the tokens key (the read of the store returned)
C22_TokensRead ==
  Done("getAccessToken") /\ calls["getAccessToken"].failed = {}

\* the restore read both keys (the reads of the store returned)
C22_RestoreRead ==
  /\ Done("initAuth")
  /\ calls["initAuth"].failed \cap {"getItem:tokens", "getItem:user"} = {}

\* C22: a read of the stored tokens or user claims returns absent when the
\* key has no value; when the stored blob is not JSON the read fails with an
\* error that reaches the caller: getAccessToken() rejects, the restore ends
\* in its catch with the error field set.
C22_CorruptBlobPropagates ==
  /\ (C22_TokensRead /\ store[TOKENS] = Null)
       => calls["getAccessToken"].ret = [kind |-> "resolved", value |-> Null]
  /\ (C22_TokensRead /\ C22_Unparsable(store[TOKENS]))
       => calls["getAccessToken"].ret.kind = "rejected"
  /\ (C22_RestoreRead
        /\ \/ C22_Unparsable(calls["initAuth"].store0[TOKENS])
           \/ C22_Unparsable(calls["initAuth"].store0[USER_INFO]))
       => authState.error # Null

\* the part of C22 that holds: a key with no value reads as absent
C22_MissingReadsAbsent ==
  /\ (C22_TokensRead /\ store[TOKENS] = Null)
       => calls["getAccessToken"].ret = [kind |-> "resolved", value |-> Null]
  /\ (C22_RestoreRead /\ calls["initAuth"].store0[TOKENS] = Null)
       => calls["initAuth"].tokens = Null

\* ---- C23
\* the operation waits for a call of the secure store
C23_StoreAccess(c) ==
  calls[c].pc \in {"getStoredTokens", "getStoredUserInfo", "deleting",
                   "setVerifier", "getVerifier", "setTokens",
                   "deleteVerifier", "setUser"}

\* C23 as stated: when login() and logout() are never started while
\* isLoading is true, at most one of the restore, login, logout, refreshUser
\* and getAccessToken has a secure-store access in flight.
C23_OneStoreUserAsStated ==
  Cardinality({c \in Slots : C23_StoreAccess(c)}) <= 1

\* C23, amended: under the same usage, the restore, login() and logout()
\* exclude one another: isLoading is true while one of them is in flight,
\* and at most one of them is.  (refreshUser() and getAccessToken() are not
\* covered by isLoading and may overlap them.)
C23_OneStoreUser ==
  /\ \A c \in {"initAuth", "login", "logout"} :
       InFlight(c) => authState.isLoading
  /\ Cardinality({c \in {"initAuth", "login", "logout"} : InFlight(c)}) <= 1

\* a getAccessToken() reads the store while a login(), called with isLoading
\* false, writes its token record
C23_Witness ==
  /\ calls["login"].pc = "setTokens"
  /\ ~calls["login"].auth0.isLoading
  /\ calls["getAccessToken"].pc = "getStoredTokens"
  /\ ~InFlight("initAuth") /\ ~InFlight("logout")

\* ---- C24
\* the browser session of login() is open
C24_Waiting == calls["login"].pc = "browser"

\* the browser session has resolved and login() has a step ahead of it
C24_Resumed ==
  calls["login"].pc \in {"getVerifier", "fetch", "setTokens",
                         "deleteVerifier", "setUser"}

\* C24: login() has no timeout of its own: while the browser session has not
\* resolved, login() stays suspended with isLoading = true, whatever time
\* passes, and only the answer of the collaborator ends the wait; once it
\* has resolved and every later store or network call returns or fails,
\* login() terminates with isLoading = false.
C24_NoTimeout ==
  /\ [](C24_Waiting => authState.isLoading)
  /\ [][(C24_Waiting /\ ~C24_Waiting')
          => calls'["login"].result # NoResult]_vars
  /\ [](Done("login") => ~authState.isLoading)
  /\ (C24_Resumed ~> (Done("login") /\ ~authState.isLoading))

\* the browser session is still open after all the time the model lets pass
C24_Witness ==
  /\ C24_Waiting
  /\ now = MaxTicks * TickMs
  /\ authState.isLoading

\* ---- C25
\* C25: the AuthState starts as isLoading = true, isAuthenticated = false,
\* user = null, tokens = null, error = null, and the startup restore always
\* terminates, with isLoading = false, provided every secure-store call it
\* makes returns or fails.
C25_RestoreTerminates ==
  /\ authState = [isLoading |-> TRUE, isAuthenticated |-> FALSE,
                  user |-> Null, tokens |-> Null, error |-> Null]
  /\ [](Done("initAuth") => ~authState.isLoading)
  /\ <>(Done("initAuth") /\ ~authState.isLoading)

\* the restore ended although its cleanup could delete none of the keys
C25_Witness ==
  /\ Done("initAuth")
  /\ ~authState.isLoading
  /\ calls["initAuth"].failed = ServiceLogoutFailures(Keys)


\* ---- C26
\* login() returned after the token endpoint answered with a non-success
\* status; the body of the answer was read, or reading it failed
C26_NotOkAnswer ==
  Done("login")
    /\ calls["login"].failed \cap {"response-not-ok", "response.text"} # {}

\* the outcome the claim states, for the body b of the answer
C26_Outcome(b) ==
  /\ authState.error = Str("Token exchange failed: " \o b)
  /\ Unauthenticated /\ ~authState.isLoading
  /\ calls["login"].tokens = Undefined
  /\ store[TOKENS] = calls["login"].store0[TOKENS]

\* C26 as stated: whenever the token endpoint answers with a non-success
\* status, login() ends Unauthenticated with an error that carries the body
\* of the answer, and no token record is stored.
C26_NotOkAsStated ==
  C26_NotOkAnswer => \E b \in ErrorBodies : C26_Outcome(b)

\* C26: when the token endpoint answers with a non-success status and the
\* body of the answer is read, login() ends Unauthenticated with the error
\* "Token exchange failed: <body>" and the token record of the store is
\* the one from before the call; when reading the body fails, login() ends
\* Unauthenticated with the error of that failure, and stores nothing either.
C26_NotOk ==
  LET r == calls["login"]
  IN /\ (Done("login") /\ "response-not-ok" \in r.failed) =>
          /\ r.body \in {Str(b) : b \in ErrorBodies}
          /\ C26_Outcome(r.body.s)
     /\ (Done("login") /\ "response.text" \in r.failed) =>
          /\ Unauthenticated /\ ~authState.isLoading
          /\ authState.error \in {Str(e.message) : e \in CollaboratorThrows}
          /\ r.tokens = Undefined
          /\ store[TOKENS] = r.store0[TOKENS]

\* a non-success answer with a non-empty body, in a login() that started
\* with a token record in the store
C26_Witness ==
  /\ Done("login") /\ "response-not-ok" \in calls["login"].failed
  /\ calls["login"].body = Str("invalid_grant")
  /\ StoredRecord(calls["login"].store0[TOKENS])


\* ---- C27
\* the token record was stored in the step before; the clock is read by the
\* step that receives the response and does not advance until the write
C27_JustStored == calls["login"].pc = "deleteVerifier"

\* clock value at receipt plus expires_in * 1000, as JavaScript computes it
C27_Computed ==
  JsPlus(now, JsTimes(Get(calls["login"].tokens, "expiresIn"), MsPerSecond))

\* C27: for every token response, the expiresAt of the stored token record
\* equals the clock value at receipt plus expires_in * 1000.
C27_StoredExpiresAt ==
  C27_JustStored =>
    Get(JsonParse(store[TOKENS]), "expiresAt") = C27_Computed

\* the part of C27 that holds: for a token response whose expires_in is a
\* number, the stored expiresAt is that number of seconds after the receipt
C27_StoredExpiresAtOfNumber ==
  (C27_JustStored /\ Get(calls["login"].tokens, "expiresIn").k = "num") =>
    /\ Get(JsonParse(store[TOKENS]), "expiresAt") = C27_Computed
    /\ C27_Computed =
         Num(now + Get(calls["login"].tokens, "expiresIn").n * MsPerSecond)


\* ---- C28
\* the keys whose delete failed in the cleanup of call c
C28_FailedKeys(c) ==
  {x \in Keys : ("deleteItem:" \o x) \in calls[c].failed}

\* the cleanup ran in call c and the call has returned
C28_CleanedUp(c) ==
  /\ Done(c)
  /\ \/ c = "logout"
     \/ c = "initAuth" /\ C28_FailedKeys(c) # {}

\* C28: after the store cleanup, every key whose own delete did not fail is
\* absent from the store, whichever of the other deletes failed, and when a
\* delete failed the caller's catch has run: the error field is set.
C28_CleanupAttemptsAll ==
  \A c \in {"logout", "initAuth"} :
    C28_CleanedUp(c) =>
      /\ \A x \in Keys \ C28_FailedKeys(c) : store[x] = Null
      /\ \A x \in C28_FailedKeys(c) : store[x] = calls[c].store0[x]
      /\ C28_FailedKeys(c) # {} =>
           authState.error = IF c = "logout" THEN LogoutCatch(authState).error
                                             ELSE RestoreCatch.error

\* logout() over a store that held the three keys; the delete of the token
\* record failed, the other two keys are gone
C28_Witness ==
  /\ Done("logout")
  /\ C28_FailedKeys("logout") = {TOKENS}
  /\ \A x \in Keys : calls["logout"].store0[x] # Null
  /\ store[TOKENS] # Null
  /\ store[USER_INFO] = Null /\ store[CODE_VERIFIER] = Null
  /\ authState.error # Null


\* ---- C29
\* the store writes of login() and the key each of them writes
C29_WriteOf ==
  [x \in Keys |-> CASE x = CODE_VERIFIER -> "setItem:verifier"
                    [] x = TOKENS -> "setItem:tokens"
                    [] OTHER -> "setItem:user"]

\* C29: within one login() the browser session is opened at most once and at
\* most one request goes to the token endpoint; a step that failed has ended
\* the call with an error in the AuthState, no step ran after it (one failure
\* at most), and a store write that failed was not made a second time: its
\* key holds what it held when the call started.
C29_NoRetry ==
  LET r == calls["login"]
  IN /\ r.opened <= 1
     /\ r.req <= 1
     /\ r.req = 1 => r.opened = 1
     /\ r.failed # {} =>
          /\ Done("login")
          /\ Cardinality(r.failed) = 1
          /\ authState.error # Null /\ ~authState.isLoading
          /\ Unauthenticated
          /\ \A x \in Keys :
               C29_WriteOf[x] \in r.failed => store[x] = r.store0[x]

\* the token request was answered with a non-success status: one browser
\* session, one request, and the call has ended
C29_Witness ==
  LET r == calls["login"]
  IN Done("login") /\ r.failed = {"response-not-ok"}
       /\ r.opened = 1 /\ r.req = 1

\* the write of the token record failed over a store that held another record
C29_WitnessWrite ==
  LET r == calls["login"]
  IN Done("login") /\ r.failed = {"setItem:tokens"}
       /\ StoredRecord(r.store0[TOKENS]) /\ r.req = 1


\* ---- C30
\* the steps of login() before the token record is written
C30_BeforeTokens ==
  {"getRandomBytes", "digest", "setVerifier", "browser", "getVerifier",
   "fetch", "setTokens"}

\* login() ran to its end: the last step stored the user claims
C30_Completed ==
  Done("login") /\ calls["login"].failed = {}
    /\ calls["login"].user # Undefined

\* C30: within one login(), (1) while the browser session is open the
\* verifier of the call is in the store, and a session was opened only after
\* that write; (2) when the write of the verifier failed no session was
\* opened; (3) until the token record is written neither the token key nor
\* the user key has changed, and when the user claims are about to be written
\* the token record is stored and the user key has not changed yet; (4) while
\* the call is in flight the AuthState has the session fields it had at the
\* call, when the call has set the Authenticated state the store holds the
\* token record and the user claims of that state, and a call that ended
\* otherwise has not set an Authenticated state.
C30_Ordering ==
  LET r == calls["login"]
  IN /\ (r.pc = "browser" =>
           r.opened = 1 /\ store[CODE_VERIFIER] = r.verifier)
     /\ (r.pc \in {"getRandomBytes", "digest", "setVerifier"} =>
           r.opened = 0 /\ store[CODE_VERIFIER] = r.store0[CODE_VERIFIER])
     /\ ("setItem:verifier" \in r.failed =>
           r.opened = 0 /\ r.result = NoResult /\ Done("login"))
     /\ (r.pc \in C30_BeforeTokens =>
           /\ store[TOKENS] = r.store0[TOKENS]
           /\ store[USER_INFO] = r.store0[USER_INFO])
     /\ (r.pc \in {"deleteVerifier", "setUser"} =>
           /\ store[TOKENS] = JsonStringify(r.tokens)
           /\ store[USER_INFO] = r.store0[USER_INFO])
     /\ (InFlight("login") =>
           /\ authState.isAuthenticated = r.auth0.isAuthenticated
           /\ authState.user = r.auth0.user
           /\ authState.tokens = r.auth0.tokens)
     /\ (C30_Completed =>
           /\ authState.isAuthenticated
           /\ authState.tokens = r.tokens /\ authState.user = r.user
           /\ store[TOKENS] = JsonStringify(r.tokens)
           /\ store[USER_INFO] = JsonStringify(r.user))
     /\ ((Done("login") /\ ~C30_Completed /\ authState.isAuthenticated) =>
           /\ r.auth0.isAuthenticated
           /\ authState.user = r.auth0.user
           /\ authState.tokens = r.auth0.tokens)

\* a login() called without a session that ran to its end over a store that
\* held neither tokens nor user claims
C30_Witness ==
  /\ C30_Completed
  /\ ~calls["login"].auth0.isAuthenticated
  /\ calls["login"].store0[TOKENS] = Null
  /\ calls["login"].store0[USER_INFO] = Null
  /\ authState.isAuthenticated

\* the write of the verifier failed
C30_WitnessVerifierFailed ==
  Done("login") /\ "setItem:verifier" \in calls["login"].failed
    /\ calls["login"].opened = 0


\* ---- C31
\* C31: the scope list of the constructed configuration is not empty, and the
\* scope parameter of an authorization request is not the empty string.
C31_ScopesNonEmpty ==
  /\ Get(config, "scopes").a # <<>>
  /\ calls["login"].authUrl # Undefined =>
       calls["login"].authUrl.params.scope # ""

\* the part of C31 that holds: a configuration without a scope list is
\* given the list openid, profile, email, and a list that is given is kept
C31_DefaultScopes ==
  /\ \A cfg \in Configs :
       Get(Constructor(cfg), "scopes") =
         IF Get(cfg, "scopes") = Undefined
           THEN Arr(<<"openid", "profile", "email">>)
           ELSE Get(cfg, "scopes")
  /\ calls["login"].authUrl # Undefined =>
       calls["login"].authUrl.params.scope = Join(Get(config, "scopes").a, " ")


\* ---- C32
\* an identity token whose number of segments is not three
C32_Malformed(idToken) ==
  idToken.k = "jwt" /\ Len(idToken.parts) # 3

\* login() received such a token and went on to getUserInfo
C32_LoginDecoded ==
  LET r == calls["login"]
  IN /\ Done("login")
     /\ r.tokens # Undefined
     /\ C32_Malformed(Get(r.tokens, "idToken"))
     /\ r.failed \cap {"setItem:tokens", "deleteItem:verifier"} = {}

\* refreshUser() was called with such a token in the AuthState
C32_RefreshDecoded ==
  /\ Done("refreshUser")
  /\ C32_Malformed(Get(calls["refreshUser"].auth0.tokens, "idToken"))

\* C32: an identity token whose number of segments is not three does not
\* decode; getUserInfo then writes nothing under the user key (in login() and
\* in refreshUser()), and refreshUser() throws and leaves the AuthState as it
\* was.
C32_MalformedToken ==
  /\ \A id \in IdTokens : C32_Malformed(id) => ~DecodeOk(id)
  /\ C32_LoginDecoded =>
       /\ calls["login"].failed = {"decode"}
       /\ calls["login"].user = Undefined
       /\ store[USER_INFO] = calls["login"].store0[USER_INFO]
  /\ C32_RefreshDecoded =>
       /\ calls["refreshUser"].failed = {"decode"}
       /\ calls["refreshUser"].ret.kind = "rejected"
       /\ store[USER_INFO] = calls["refreshUser"].store0[USER_INFO]
       /\ authState = calls["refreshUser"].auth0

\* refreshUser() called in an Authenticated state whose identity token has
\* two segments, over a store that holds user claims
C32_Witness ==
  /\ C32_RefreshDecoded
  /\ calls["refreshUser"].auth0.isAuthenticated
  /\ store[USER_INFO] # Null

\* login() received an identity token of two segments
C32_WitnessLogin == C32_LoginDecoded /\ calls["login"].store0[USER_INFO] # Null


\* ---- C33
\* C33: in every reachable AuthState, isAuthenticated = false implies
\* user = null and tokens = null.
C33_UnauthenticatedHasNoSession ==
  ~authState.isAuthenticated =>
    authState.user = Null /\ authState.tokens = Null


\* ---- C34
\* login() has ended with isAuthenticated = false and an error, after the
\* token endpoint answered with a token record
C34_FailedAfterTokens ==
  /\ Done("login")
  /\ ~authState.isAuthenticated /\ authState.error # Null
  /\ calls["login"].tokens # Undefined

\* C34: after such a login() the token key of the secure store holds nothing
\* that this login() wrote (it is absent, or holds what it held at the call),
\* so that getAccessToken() returns nothing of the failed attempt.
C34_NoTokensOfFailedLogin ==
  C34_FailedAfterTokens =>
    /\ store[TOKENS] \in {Null, calls["login"].store0[TOKENS]}
    /\ AccessTokenResult(GetStored(store[TOKENS], TRUE), now) \in
         {Null,
          AccessTokenResult(GetStored(calls["login"].store0[TOKENS], TRUE), now)}


\* ---- C35
\* C35: whenever no operation is in flight and isAuthenticated = true, the
\* token key of the secure store holds the tokens of the AuthState (as
\* JSON.stringify writes them).
C35_StoreMatchesState ==
  (Quiet /\ authState.isAuthenticated) =>
    store[TOKENS] = JsonStringify(authState.tokens)


\* ---- C36
\* C36: in every login() call, also beside another login() call, the
\* verifier sent to the token endpoint is the one the call generated, whose
\* challenge went into the authorization request of that call.
C36_VerifierOfAttempt ==
  \A c \in Logins :
    calls[c].sent # Undefined =>
      /\ calls[c].sent = calls[c].verifier
      /\ calls[c].authUrl.params.code_challenge = CodeChallenge(calls[c].sent.s)


\* ---- C37
\* a login() and a logout() that ran beside each other have both returned
C37_BothReturned == Done("login") /\ Done("logout")

\* C37: once both have returned, isAuthenticated = true implies that the
\* token record and the user claims are in the secure store.
C37_AuthenticatedHasStoredSession ==
  (C37_BothReturned /\ authState.isAuthenticated) =>
    StoredRecord(store[TOKENS]) /\ StoredRecord(store[USER_INFO])

\* the same where no store call of either operation failed
C37_AuthenticatedHasStoredSessionNoFailure ==
  (C37_BothReturned /\ authState.isAuthenticated
     /\ calls["login"].failed = {} /\ calls["logout"].failed = {}) =>
    StoredRecord(store[TOKENS]) /\ StoredRecord(store[USER_INFO])


\* ---- C38
\* a step in which the session of the AuthState ends
C38_SessionEnds == authState.isAuthenticated /\ ~authState'.isAuthenticated

\* the steps that may end it: the return of logout(), the failure of a
\* login(), a new mount of the provider
C38_EndingStep ==
  \/ calls["logout"].pc = "deleting" /\ calls'["logout"].pc = "done"
  \/ /\ InFlight("login") /\ calls'["login"].pc = "done"
     /\ calls'["login"].failed # {}
  \/ calls'["initAuth"].pc = "getStoredTokens"

\* getAccessToken() has returned in an Authenticated state whose token record
\* is past its expiry threshold
C38_AskedWhenExpired ==
  /\ Done("getAccessToken")
  /\ authState.isAuthenticated
  /\ PolicyExpired(authState.tokens, now)

\* C38: a step in which the clock advances changes no field of the AuthState;
\* an Authenticated state ends only in the return of logout(), the failure of
\* a login() or a new startup restore; and getAccessToken() called when the
\* token record of the Authenticated state is past its threshold returns null
\* and leaves the AuthState as it is.
C38_TimeAlone ==
  /\ [][now' # now => authState' = authState]_vars
  /\ [][C38_SessionEnds => C38_EndingStep]_vars
  /\ [](C38_AskedWhenExpired =>
          /\ calls["getAccessToken"].ret.value = Null
          /\ authState = calls["getAccessToken"].auth0)

\* the token record of an Authenticated session was not expired at time 0,
\* time has passed, and getAccessToken() has returned null while the session
\* is still Authenticated
C38_Witness ==
  /\ C38_AskedWhenExpired
  /\ PolicyNotExpired(authState.tokens, 0)
  /\ now > 0
  /\ calls["getAccessToken"].failed = {}
  /\ calls["getAccessToken"].ret.value = Null
  /\ authState.tokens # Null /\ authState.user # Null


\* ---- C39
\* the startup restore has ended Unauthenticated with no error
C39_RestoredNone ==
  Done("initAuth") /\ authState = RestoreNone

\* C39: after such a restore none of the three keys holds a value in the
\* secure store.
C39_RestoreLeavesNothing ==
  C39_RestoredNone => \A x \in Keys : store[x] = Null

\* the part of C39 that holds: when the restore read a token record, it ends
\* Unauthenticated with no error only after a cleanup that removed all three
\* keys; when it read none, it deletes nothing
C39_CleanupLeavesNothing ==
  C39_RestoredNone =>
    IF Truthy(calls["initAuth"].tokens)
      THEN \A x \in Keys : store[x] = Null
      ELSE store = calls["initAuth"].store0

====
